---- MODULE Spec2Model ----
(***************************************************************************)
(* Model of openapi_to_human.py: the conversion of an OpenAPI document     *)
(* tree into a Markdown reference.                                         *)
(*                                                                         *)
(* Python values are tagged records [t, v].  A str is the sequence of its  *)
(* code points, a dict the sequence of its <<key, value>> items in         *)
(* insertion order.  A rendered text is the sequence of the strings that   *)
(* "\n".join puts on lines of their own; each is a sequence of tokens, an  *)
(* ASCII literal of the program (Lit) or a sequence of characters (Txt):   *)
(* text computed from the document, and the characters of the program's    *)
(* literals that a string of this module cannot hold.  The text of the     *)
(* documents is ASCII.                                                     *)
(***************************************************************************)
EXTENDS Integers, Sequences, FiniteSets, TLC

\* -------------------------------------------------------------- characters
NL == 10
SP == 32
TAB == 9
CR == 13
Whitespace == {NL, SP, TAB, CR}

\* ------------------------------------------- the program's string literals
s_paths == <<112, 97, 116, 104, 115>>   \* "paths"
s_servers == <<115, 101, 114, 118, 101, 114, 115>>   \* "servers"
s_url == <<117, 114, 108>>   \* "url"
s_info == <<105, 110, 102, 111>>   \* "info"
s_title == <<116, 105, 116, 108, 101>>   \* "title"
s_components == <<99, 111, 109, 112, 111, 110, 101, 110, 116, 115>>   \* "components"
s_securitySchemes == <<115, 101, 99, 117, 114, 105, 116, 121, 83, 99, 104, 101, 109, 101, 115>>   \* "securitySchemes"
s_type == <<116, 121, 112, 101>>   \* "type"
s_scheme == <<115, 99, 104, 101, 109, 101>>   \* "scheme"
s_http == <<104, 116, 116, 112>>   \* "http"
s_bearer == <<98, 101, 97, 114, 101, 114>>   \* "bearer"
s_get == <<103, 101, 116>>   \* "get"
s_post == <<112, 111, 115, 116>>   \* "post"
s_put == <<112, 117, 116>>   \* "put"
s_patch == <<112, 97, 116, 99, 104>>   \* "patch"
s_delete == <<100, 101, 108, 101, 116, 101>>   \* "delete"
s_head == <<104, 101, 97, 100>>   \* "head"
s_options == <<111, 112, 116, 105, 111, 110, 115>>   \* "options"
s_summary == <<115, 117, 109, 109, 97, 114, 121>>   \* "summary"
s_description == <<100, 101, 115, 99, 114, 105, 112, 116, 105, 111, 110>>   \* "description"
s_requestBody == <<114, 101, 113, 117, 101, 115, 116, 66, 111, 100, 121>>   \* "requestBody"
s_content == <<99, 111, 110, 116, 101, 110, 116>>   \* "content"
s_application_json == <<97, 112, 112, 108, 105, 99, 97, 116, 105, 111, 110, 47, 106, 115, 111, 110>>   \* "application/json"
s_schema == <<115, 99, 104, 101, 109, 97>>   \* "schema"
s_object == <<111, 98, 106, 101, 99, 116>>   \* "object"
s_required == <<114, 101, 113, 117, 105, 114, 101, 100>>   \* "required"
s_properties == <<112, 114, 111, 112, 101, 114, 116, 105, 101, 115>>   \* "properties"
s_example == <<101, 120, 97, 109, 112, 108, 101>>   \* "example"
s_examples == <<101, 120, 97, 109, 112, 108, 101, 115>>   \* "examples"
s_value == <<118, 97, 108, 117, 101>>   \* "value"
s_responses == <<114, 101, 115, 112, 111, 110, 115, 101, 115>>   \* "responses"
s_ExamplePrefix == <<69, 120, 97, 109, 112, 108, 101, 58, 32, 96>>   \* "Example: `"
s_Backtick == <<96>>   \* "`"
s_None == <<78, 111, 110, 101>>   \* "None"
s_True == <<84, 114, 117, 101>>   \* "True"
s_False == <<70, 97, 108, 115, 101>>   \* "False"
s_null == <<110, 117, 108, 108>>   \* "null"
s_true == <<116, 114, 117, 101>>   \* "true"
s_false == <<102, 97, 108, 115, 101>>   \* "false"
s_APIreference == <<65, 80, 73, 32, 114, 101, 102, 101, 114, 101, 110, 99, 101>>   \* "API reference"
s_date == <<50, 48, 50, 48, 45, 48, 49, 45, 48, 49>>   \* "2020-01-01"
s_daterepr == <<100, 97, 116, 101, 116, 105, 109, 101, 46, 100, 97, 116, 101, 40, 50, 48, 50, 48, 44, 32, 49, 44, 32, 49, 41>>   \* "datetime.date(2020, 1, 1)"

\* ------------------------------------------------------------ Python values
VNone == [t |-> "none", v |-> 0]
VStr(s) == [t |-> "str", v |-> s]
VInt(n) == [t |-> "int", v |-> n]
VBool(b) == [t |-> "bool", v |-> b]
VList(xs) == [t |-> "list", v |-> xs]
VDict(items) == [t |-> "dict", v |-> items]
\* a datetime.date, as yaml.safe_load builds one from 2020-01-01
VDate == [t |-> "date", v |-> 0]

isdict(x) == x.t = "dict"
islist(x) == x.t = "list"

\* bool(x)
Truthy(x) ==
  CASE x.t = "none" -> FALSE
    [] x.t = "bool" -> x.v
    [] x.t = "int" -> x.v # 0
    [] x.t \in {"str", "list", "dict"} -> Len(x.v) > 0
    [] OTHER -> TRUE

\* a == b on values of the document
PyEq(a, b) == a.t = b.t /\ a.v = b.v

\* k in d
HasKey(d, k) == \E i \in 1..Len(d.v) : PyEq(d.v[i][1], k)

\* d.get(k)
Get(d, k) ==
  IF HasKey(d, k)
  THEN d.v[CHOOSE i \in 1..Len(d.v) : PyEq(d.v[i][1], k)][2]
  ELSE VNone

\* d.get(k, default)
GetDefault(d, k, default) == IF HasKey(d, k) THEN Get(d, k) ELSE default

\* x or y
Or(x, y) == IF Truthy(x) THEN x ELSE y

\* ------------------------------------------------------------------ strings
RECURSIVE Join(_, _)
\* sep.join(parts) on strings
Join(parts, sep) ==
  IF Len(parts) = 0 THEN <<>>
  ELSE IF Len(parts) = 1 THEN parts[1]
  ELSE parts[1] \o sep \o Join(Tail(parts), sep)

RECURSIVE Digits(_)
Digits(n) == IF n < 10 THEN <<48 + n>> ELSE Digits(n \div 10) \o <<48 + (n % 10)>>

\* str(n) of an int
IntStr(n) == IF n < 0 THEN <<45>> \o Digits(-n) ELSE Digits(n)

LowerChar(c) == IF c \in 65..90 THEN c + 32 ELSE c
UpperChar(c) == IF c \in 97..122 THEN c - 32 ELSE c
lower(s) == [i \in 1..Len(s) |-> LowerChar(s[i])]
upper(s) == [i \in 1..Len(s) |-> UpperChar(s[i])]

\* s.replace("\n", " ")
ReplaceNL(s) == [i \in 1..Len(s) |-> IF s[i] = NL THEN SP ELSE s[i]]

\* s.strip()
strip(s) ==
  LET keep == {i \in 1..Len(s) : s[i] \notin Whitespace}
  IN IF keep = {} THEN <<>>
     ELSE LET lo == CHOOSE i \in keep : \A j \in keep : i <= j
              hi == CHOOSE i \in keep : \A j \in keep : j <= i
          IN SubSeq(s, lo, hi)

\* a < b on strings: by code point, a proper prefix first
StrLess(a, b) ==
  \E i \in 1..Len(b) :
    /\ \A j \in 1..(i - 1) : j <= Len(a) /\ a[j] = b[j]
    /\ (i > Len(a) \/ (i <= Len(a) /\ a[i] < b[i]))

RECURSIVE PyRepr(_)
RECURSIVE ReprItems(_)
\* repr(x)
PyRepr(x) ==
  CASE x.t = "none" -> s_None
    [] x.t = "bool" -> IF x.v THEN s_True ELSE s_False
    [] x.t = "int" -> IntStr(x.v)
    [] x.t = "str" ->
         <<39>> \o Join([i \in 1..Len(x.v) |->
                           IF x.v[i] = NL THEN <<92, 110>> ELSE <<x.v[i]>>], <<>>)
                \o <<39>>
    [] x.t = "list" -> <<91>> \o Join([i \in 1..Len(x.v) |-> PyRepr(x.v[i])], <<44, 32>>) \o <<93>>
    [] x.t = "dict" -> <<123>> \o Join(ReprItems(x.v), <<44, 32>>) \o <<125>>
    [] OTHER -> s_daterepr
ReprItems(items) ==
  [i \in 1..Len(items) |-> PyRepr(items[i][1]) \o <<58, 32>> \o PyRepr(items[i][2])]

\* str(x)
PyStr(x) ==
  CASE x.t = "str" -> x.v
    [] x.t = "date" -> s_date
    [] OTHER -> PyRepr(x)


\* int(s) of a str: surrounding whitespace, an optional sign, decimal digits
\* (the documents hold no digit separators and no digits beyond ASCII)
IsDigit(c) == c \in 48..57
IntBody(s) == IF Len(s) > 0 /\ s[1] \in {43, 45} THEN Tail(s) ELSE s
IsIntStr(s) ==
  LET b == IntBody(strip(s))
  IN Len(b) > 0 /\ \A i \in 1..Len(b) : IsDigit(b[i])
RECURSIVE DigitsValue(_)
DigitsValue(b) ==
  IF Len(b) = 0 THEN 0
  ELSE 10 * DigitsValue(SubSeq(b, 1, Len(b) - 1)) + (b[Len(b)] - 48)
IntOfStr(s) ==
  LET t == strip(s)
  IN IF Len(t) > 0 /\ t[1] = 45 THEN 0 - DigitsValue(IntBody(t))
     ELSE DigitsValue(IntBody(t))

\* int(x) succeeds
IntOk(x) ==
  CASE x.t = "int" -> TRUE
    [] x.t = "bool" -> TRUE
    [] x.t = "str" -> IsIntStr(x.v)
    [] OTHER -> FALSE
\* int(x)
IntOf(x) ==
  CASE x.t = "int" -> x.v
    [] x.t = "bool" -> IF x.v THEN 1 ELSE 0
    [] OTHER -> IntOfStr(x.v)

\* f"{n:04d}": zero-padded to four characters, the sign counted
Pad4(n) ==
  LET d == Digits(IF n < 0 THEN 0 - n ELSE n)
      w == IF n < 0 THEN 3 ELSE 4
      z == [i \in 1..(IF Len(d) < w THEN w - Len(d) ELSE 0) |-> 48]
  IN (IF n < 0 THEN <<45>> ELSE <<>>) \o z \o d

\* ------------------------------------------------------------------ sorting
\* sorted(s, key=...): lt[a][b] says that the key of s[a] is less than the key
\* of s[b] (a strict weak order); equal keys keep their order.  The element at
\* index i lands after every element that is smaller, and after every equal one
\* that came before it.
StableSort(s, lt) ==
  LET pos(i) == 1 + Cardinality({j \in 1..Len(s) :
                       j # i /\ (lt[j][i] \/ (~lt[i][j] /\ j < i))})
  IN [k \in 1..Len(s) |-> s[CHOOSE i \in 1..Len(s) : pos(i) = k]]

RECURSIVE Concat(_)
\* the concatenation of a sequence of sequences
Concat(ss) == IF Len(ss) = 0 THEN <<>> ELSE ss[1] \o Concat(Tail(ss))

\* ------------------------------------------------------- first_server_url
first_server_url(spec) ==
  LET servers == Or(Get(spec, VStr(s_servers)), VList(<<>>))
  IN IF Truthy(servers) /\ islist(servers) /\ isdict(servers.v[1])
     THEN Get(servers.v[1], VStr(s_url))
     ELSE VNone

\* ------------------------------------------------------ detect_bearer_auth
IsBearerScheme(scheme) ==
  /\ isdict(scheme)
  /\ PyEq(Get(scheme, VStr(s_type)), VStr(s_http))
  /\ lower(PyStr(GetDefault(scheme, VStr(s_scheme), VStr(<<>>)))) = s_bearer

\* detect_bearer_auth comparing the scheme as written, without lower()
detect_bearer_auth_case_sensitive(spec) ==
  LET components == Or(Get(spec, VStr(s_components)), VDict(<<>>))
      sec == IF isdict(components)
             THEN Or(Get(components, VStr(s_securitySchemes)), VDict(<<>>))
             ELSE VDict(<<>>)
  IN IF ~isdict(sec) THEN FALSE
     ELSE \E i \in 1..Len(sec.v) :
            /\ isdict(sec.v[i][2])
            /\ PyEq(Get(sec.v[i][2], VStr(s_type)), VStr(s_http))
            /\ PyStr(GetDefault(sec.v[i][2], VStr(s_scheme), VStr(<<>>))) = s_bearer

detect_bearer_auth(spec) ==
  LET components == Or(Get(spec, VStr(s_components)), VDict(<<>>))
      sec == IF isdict(components)
             THEN Or(Get(components, VStr(s_securitySchemes)), VDict(<<>>))
             ELSE VDict(<<>>)
  IN IF ~isdict(sec) THEN FALSE
     ELSE \E i \in 1..Len(sec.v) : IsBearerScheme(sec.v[i][2])

\* ------------------------------------------------------ collect_operations
HTTP_METHODS == {s_get, s_post, s_put, s_patch, s_delete, s_head, s_options}

\* the triples one path item adds to ops, in the order of its keys
ItemOps(path, path_item) ==
  IF ~isdict(path_item) THEN <<>>
  ELSE LET one(e) ==
             LET m == lower(PyStr(e[1]))
             IN IF m \in HTTP_METHODS /\ isdict(e[2])
                THEN << <<upper(m), PyStr(path), e[2]>> >>
                ELSE <<>>
       IN Concat([j \in 1..Len(path_item.v) |-> one(path_item.v[j])])

\* key=lambda t: (t[1], t[0])
OpKeyLess(a, b) == StrLess(a[2], b[2]) \/ (a[2] = b[2] /\ StrLess(a[1], b[1]))

\* collect_operations returning ops as collected, without sorted()
collect_operations_unsorted(spec) ==
  LET paths == Or(Get(spec, VStr(s_paths)), VDict(<<>>))
  IN IF ~isdict(paths) THEN <<>>
     ELSE Concat([i \in 1..Len(paths.v) |-> ItemOps(paths.v[i][1], paths.v[i][2])])

collect_operations(spec) ==
  LET paths == Or(Get(spec, VStr(s_paths)), VDict(<<>>))
  IN IF ~isdict(paths) THEN <<>>
     ELSE LET collected == Concat([i \in 1..Len(paths.v) |->
                                     ItemOps(paths.v[i][1], paths.v[i][2])])
          IN StableSort(collected,
                        [a \in 1..Len(collected) |-> [b \in 1..Len(collected) |->
                           OpKeyLess(collected[a], collected[b])]])

\* ---------------------------------------------------------------- md_escape
md_escape(text) == strip(ReplaceNL(text))

\* ----------------------------------------------------- extract_json_example
\* extract_json_example testing the example for truth, not the key for presence
extract_json_example_truthy(content_obj) ==
  IF ~isdict(content_obj) THEN VNone
  ELSE LET app_json == Get(content_obj, VStr(s_application_json))
       IN IF ~isdict(app_json) THEN VNone
          ELSE IF Truthy(Get(app_json, VStr(s_example))) THEN Get(app_json, VStr(s_example))
          ELSE LET examples == Get(app_json, VStr(s_examples))
               IN IF isdict(examples) /\ Truthy(examples)
                  THEN LET ex == examples.v[1][2]
                       IN IF isdict(ex) /\ HasKey(ex, VStr(s_value))
                          THEN Get(ex, VStr(s_value))
                          ELSE VNone
                  ELSE VNone

extract_json_example(content_obj) ==
  IF ~isdict(content_obj) THEN VNone
  ELSE LET app_json == Get(content_obj, VStr(s_application_json))
       IN IF ~isdict(app_json) THEN VNone
          ELSE IF HasKey(app_json, VStr(s_example)) THEN Get(app_json, VStr(s_example))
          ELSE LET examples == Get(app_json, VStr(s_examples))
               IN IF isdict(examples) /\ Truthy(examples)
                  THEN LET ex == examples.v[1][2]
                       IN IF isdict(ex) /\ HasKey(ex, VStr(s_value))
                          THEN Get(ex, VStr(s_value))
                          ELSE VNone
                  ELSE VNone

\* --------------------------------------------------- extract_request_fields
\* FieldOf without the fallback of the type to "object"
FieldOf_no_fallback(field_name, fs, required) ==
  LET field_schema == IF isdict(fs) THEN fs ELSE VDict(<<>>)
      n0 == IF HasKey(field_schema, VStr(s_description))
            THEN md_escape(PyStr(Or(Get(field_schema, VStr(s_description)), VStr(<<>>))))
            ELSE <<>>
      example == Get(field_schema, VStr(s_example))
  IN [name |-> PyStr(field_name),
      type |-> PyStr(Get(field_schema, VStr(s_type))),
      required |-> IF \E k \in 1..Len(required) : PyEq(field_name, required[k])
                   THEN "yes" ELSE "no",
      notes |-> IF example.t # "none"
                THEN (IF Len(n0) > 0 THEN n0 \o <<SP>> ELSE <<>>)
                     \o s_ExamplePrefix \o PyStr(example) \o s_Backtick
                ELSE n0]

\* the descriptor of one property
FieldOf(field_name, fs, required) ==
  LET field_schema == IF isdict(fs) THEN fs ELSE VDict(<<>>)
      ftype == PyStr(Or(Get(field_schema, VStr(s_type)), VStr(s_object)))
      n0 == IF HasKey(field_schema, VStr(s_description))
            THEN md_escape(PyStr(Or(Get(field_schema, VStr(s_description)), VStr(<<>>))))
            ELSE <<>>
      example == Get(field_schema, VStr(s_example))
      notes == IF example.t # "none"
               THEN (IF Len(n0) > 0 THEN n0 \o <<SP>> ELSE <<>>)
                    \o s_ExamplePrefix \o PyStr(example) \o s_Backtick
               ELSE n0
  IN [name |-> PyStr(field_name),
      type |-> ftype,
      required |-> IF \E k \in 1..Len(required) : PyEq(field_name, required[k])
                   THEN "yes" ELSE "no",
      notes |-> notes]

\* the fields sorted by name alone
FieldKeyLess_name_only(a, b) == StrLess(a.name, b.name)

\* key=lambda r: (r["required"] != "yes", r["name"])
FieldKeyLess(a, b) ==
  \/ a.required = "yes" /\ b.required # "yes"
  \/ (a.required = "yes") = (b.required = "yes") /\ StrLess(a.name, b.name)

\* extract_request_fields reporting no JSON body when the schema is no mapping
extract_request_fields_schema_flag(op) ==
  LET rb == Get(op, VStr(s_requestBody))
      content == Get(rb, VStr(s_content))
      app_json == Get(content, VStr(s_application_json))
      schema == Get(app_json, VStr(s_schema))
      r0 == Or(Get(schema, VStr(s_required)), VList(<<>>))
      required == IF islist(r0) THEN r0.v ELSE <<>>
      p0 == Or(Get(schema, VStr(s_properties)), VDict(<<>>))
      props == IF isdict(p0) THEN p0.v ELSE <<>>
  IN IF ~isdict(rb) THEN [fields |-> <<>>, has_json_body |-> FALSE]
     ELSE IF ~isdict(content) THEN [fields |-> <<>>, has_json_body |-> FALSE]
     ELSE IF ~isdict(app_json) THEN [fields |-> <<>>, has_json_body |-> FALSE]
     ELSE IF ~isdict(schema) THEN [fields |-> <<>>, has_json_body |-> FALSE]
     ELSE IF ~PyEq(Get(schema, VStr(s_type)), VStr(s_object))
     THEN [fields |-> <<>>, has_json_body |-> TRUE]
     ELSE LET fs == [i \in 1..Len(props) |-> FieldOf(props[i][1], props[i][2], required)]
          IN [fields |-> StableSort(fs, [a \in 1..Len(fs) |-> [b \in 1..Len(fs) |->
                                           FieldKeyLess(fs[a], fs[b])]]),
              has_json_body |-> TRUE]

extract_request_fields(op) ==
  LET rb == Get(op, VStr(s_requestBody))
      content == Get(rb, VStr(s_content))
      app_json == Get(content, VStr(s_application_json))
      schema == Get(app_json, VStr(s_schema))
      r0 == Or(Get(schema, VStr(s_required)), VList(<<>>))
      required == IF islist(r0) THEN r0.v ELSE <<>>
      p0 == Or(Get(schema, VStr(s_properties)), VDict(<<>>))
      props == IF isdict(p0) THEN p0.v ELSE <<>>
  IN IF ~isdict(rb) THEN [fields |-> <<>>, has_json_body |-> FALSE]
     ELSE IF ~isdict(content) THEN [fields |-> <<>>, has_json_body |-> FALSE]
     ELSE IF ~isdict(app_json) THEN [fields |-> <<>>, has_json_body |-> FALSE]
     ELSE IF ~isdict(schema) THEN [fields |-> <<>>, has_json_body |-> TRUE]
     ELSE IF ~PyEq(Get(schema, VStr(s_type)), VStr(s_object))
     THEN [fields |-> <<>>, has_json_body |-> TRUE]
     ELSE LET fs == [i \in 1..Len(props) |-> FieldOf(props[i][1], props[i][2], required)]
          IN [fields |-> StableSort(fs, [a \in 1..Len(fs) |-> [b \in 1..Len(fs) |->
                                           FieldKeyLess(fs[a], fs[b])]]),
              has_json_body |-> TRUE]


\* --------------------------------------------------------------- json.dumps
JsonEscape(s) ==
  Join([i \in 1..Len(s) |->
          CASE s[i] = NL -> <<92, 110>>
            [] s[i] = 34 -> <<92, 34>>
            [] s[i] = 92 -> <<92, 92>>
            [] OTHER -> <<s[i]>>], <<>>)
JsonStr(s) == <<34>> \o JsonEscape(s) \o <<34>>
\* a dict key: a str as it is, the other scalars converted to one
JsonKey(k) ==
  CASE k.t = "str" -> JsonStr(k.v)
    [] k.t = "int" -> JsonStr(IntStr(k.v))
    [] k.t = "bool" -> JsonStr(IF k.v THEN s_true ELSE s_false)
    [] OTHER -> JsonStr(s_null)
Spaces(n) == [i \in 1..n |-> SP]

RECURSIVE JsonRaises(_)
\* json.dumps raises TypeError: a value it cannot serialize is somewhere in x
JsonRaises(x) ==
  CASE x.t = "date" -> TRUE
    [] x.t = "list" -> \E i \in 1..Len(x.v) : JsonRaises(x.v[i])
    [] x.t = "dict" -> \E i \in 1..Len(x.v) : x.v[i][1].t = "date" \/ JsonRaises(x.v[i][2])
    [] OTHER -> FALSE

RECURSIVE JsonDumps(_, _)
\* json.dumps(x, ensure_ascii=False, indent=2), at nesting depth ind / 2
JsonDumps(x, ind) ==
  CASE x.t = "none" -> s_null
    [] x.t = "bool" -> IF x.v THEN s_true ELSE s_false
    [] x.t = "int" -> IntStr(x.v)
    [] x.t = "str" -> JsonStr(x.v)
    [] x.t = "list" ->
         IF Len(x.v) = 0 THEN <<91, 93>>
         ELSE <<91, NL>>
              \o Join([i \in 1..Len(x.v) |-> Spaces(ind + 2) \o JsonDumps(x.v[i], ind + 2)],
                      <<44, NL>>)
              \o <<NL>> \o Spaces(ind) \o <<93>>
    [] OTHER ->
         IF Len(x.v) = 0 THEN <<123, 125>>
         ELSE <<123, NL>>
              \o Join([i \in 1..Len(x.v) |->
                         Spaces(ind + 2) \o JsonKey(x.v[i][1]) \o <<58, SP>>
                         \o JsonDumps(x.v[i][2], ind + 2)],
                      <<44, NL>>)
              \o <<NL>> \o Spaces(ind) \o <<125>>

\* ----------------------------------------------------------- rendered text
\* A string of the output is the sequence of its lines (what "\n" separates in
\* the program's own literals and joins); a line is a sequence of tokens.
Lit(s) == [k |-> "lit", lit |-> s, txt |-> <<>>]
Txt(cs) == [k |-> "txt", lit |-> "", txt |-> cs]
\* the characters a module's string cannot hold
BQ == Txt(s_Backtick)
EmDash == Txt(<<SP, 8212, SP>>)
BearerHeader == <<BQ, Lit("Authorization: Bearer <token>"), BQ>>
ContentTypeHeader == <<BQ, Lit("Content-Type: application/json"), BQ>>
NoOperationsLine == <<Lit("No operations found in "), BQ, Lit("paths"), BQ, Lit(".")>>
EmptyStr == << <<>> >>
OneLine(tokens) == << tokens >>

\* "\n".join(out), out a list of strings
JoinLines(out) == Concat(out)

IsBlankLine(line) ==
  \A i \in 1..Len(line) : line[i].k = "txt" /\ \A j \in 1..Len(line[i].txt) :
                                                  line[i].txt[j] \in Whitespace
RECURSIVE RStripText(_)
\* s.rstrip() of a string whose last line with text ends in no whitespace
RStripText(text) ==
  IF Len(text) > 1 /\ IsBlankLine(text[Len(text)])
  THEN RStripText(SubSeq(text, 1, Len(text) - 1))
  ELSE IF Len(text) = 1 /\ IsBlankLine(text[1]) THEN EmptyStr
  ELSE text
RECURSIVE LStripText(_)
LStripText(text) ==
  IF Len(text) > 1 /\ IsBlankLine(text[1]) THEN LStripText(Tail(text))
  ELSE IF Len(text) = 1 /\ IsBlankLine(text[1]) THEN EmptyStr
  ELSE text
\* s + "\n"
PlusNL(text) == text \o << <<>> >>

md_h1(title) == << <<Lit("# ")>> \o title, <<>> >>
md_h2(title) == << <<>>, <<Lit("## ")>> \o title, <<>> >>
md_h3(title) == << <<>>, <<Lit("### ")>> \o title, <<>> >>

\* -------------------------------------------------- render_endpoint_summary
SummaryRow(t) ==
  LET purpose == md_escape(PyStr(Or(Or(Get(t[3], VStr(s_summary)),
                                       Get(t[3], VStr(s_description))), VStr(<<>>))))
  IN OneLine(<<Lit("| "), Txt(t[1]), Lit(" | "), BQ, Txt(t[2]), BQ, Lit(" | "),
               Txt(purpose), Lit(" |")>>)

render_endpoint_summary(ops) ==
  JoinLines(<<md_h2(<<Lit("Endpoint summary")>>),
              OneLine(<<Lit("| Method | Path | Purpose |")>>),
              OneLine(<<Lit("|---:|---|---|")>>)>>
            \o [i \in 1..Len(ops) |-> SummaryRow(ops[i])]
            \o <<EmptyStr>>)

\* ------------------------------------------------------ render_auth_section
render_auth_section(has_bearer) ==
  JoinLines(<<md_h2(<<Lit("Authentication")>>)>>
            \o (IF has_bearer
                THEN <<OneLine(<<Lit("All requests require a bearer token:")>>),
                       EmptyStr,
                       OneLine(BearerHeader)>>
                ELSE <<OneLine(<<Lit("Authentication is not defined in this sample OpenAPI spec.")>>)>>)
            \o <<EmptyStr>>)

\* -------------------------------------------------- render_required_headers
render_required_headers(has_bearer, has_json_body) ==
  LET headers == (IF has_bearer THEN <<BearerHeader>> ELSE <<>>)
                 \o (IF has_json_body THEN <<ContentTypeHeader>> ELSE <<>>)
  IN JoinLines(<<md_h3(<<Lit("Required headers")>>)>>
               \o (IF Len(headers) > 0
                   THEN [i \in 1..Len(headers) |-> OneLine(<<Lit("- ")>> \o headers[i])]
                   ELSE <<OneLine(<<Lit("None.")>>)>>)
               \o <<EmptyStr>>)

\* ----------------------------------------------- render_request_body_fields
FieldRow(f) ==
  OneLine(<<Lit("| "), BQ, Txt(f.name), BQ, Lit(" | "), Txt(f.type), Lit(" | "),
            Lit(f.required), Lit(" | "), Txt(md_escape(f.notes)), Lit(" |")>>)

render_request_body_fields(fields, has_json_body) ==
  JoinLines(<<md_h3(<<Lit("Request body fields")>>)>>
            \o (IF ~has_json_body
                THEN <<OneLine(<<Lit("This endpoint does not define a request body.")>>)>>
                ELSE IF Len(fields) = 0
                THEN <<OneLine(<<Lit("Request body schema is JSON, but fields are not expanded in this MVP.")>>)>>
                ELSE <<OneLine(<<Lit("| Field | Type | Required | Notes |")>>),
                       OneLine(<<Lit("|---|---|:---:|---|")>>)>>
                     \o [i \in 1..Len(fields) |-> FieldRow(fields[i])])
            \o <<EmptyStr>>)


\* --------------------------------------------------------- render_responses
\* sort_key(code): (0, f"{int(code):04d}") when int(code) succeeds, else (1, code)
SortGroup(code) == IF IntOk(code) THEN 0 ELSE 1
SortText(code) == IF IntOk(code) THEN Pad4(IntOf(code)) ELSE code.v
\* the codes compared as text, without sort_key
SortKeyLess_lexical(a, b) == StrLess(PyStr(a), PyStr(b))
SortKeyLess(a, b) ==
  \/ SortGroup(a) < SortGroup(b)
  \/ SortGroup(a) = SortGroup(b) /\ StrLess(SortText(a), SortText(b))

\* sorted raises TypeError: two keys (1, code) whose codes do not compare, a
\* str and a None.  A comparison sort cannot place such a pair without
\* comparing one key (1, None) with one key (1, str).
SortRaises(codes) ==
  \E i, j \in 1..Len(codes) :
    /\ SortGroup(codes[i]) = 1 /\ SortGroup(codes[j]) = 1
    /\ codes[i].t # codes[j].t

\* one pass of the loop over the sorted codes
ResponseEntry(responses, code) ==
  LET r == Get(responses, code)
      content == Or(Get(r, VStr(s_content)), VDict(<<>>))
  IN [code |-> code,
      desc |-> md_escape(PyStr(Or(Get(r, VStr(s_description)), VStr(<<>>)))),
      ex |-> IF isdict(content) THEN extract_json_example(content) ELSE VNone]

EntryLines(e) ==
  <<OneLine(<<Lit("**"), Txt(PyStr(e.code)), Lit("**")>>
            \o (IF Len(e.desc) > 0 THEN <<EmDash, Txt(e.desc)>> ELSE <<>>))>>
  \o (IF e.ex.t # "none"
      THEN <<EmptyStr,
             OneLine(<<Txt(<<96, 96, 96>>), Lit("json")>>),
             OneLine(<<Txt(JsonDumps(e.ex, 0))>>),
             OneLine(<<Txt(<<96, 96, 96>>)>>)>>
      ELSE <<>>)
  \o <<EmptyStr>>

\* [raised, codes: the sorted codes, entries: what the loop renders, text]
render_responses(op) ==
  LET responses == Or(Get(op, VStr(s_responses)), VDict(<<>>))
      keys == [i \in 1..Len(responses.v) |-> responses.v[i][1]]
      codes == StableSort(keys, [a \in 1..Len(keys) |-> [b \in 1..Len(keys) |->
                                   SortKeyLess(keys[a], keys[b])]])
      mapped == SelectSeq(codes, LAMBDA c : isdict(Get(responses, c)))
      entries == [i \in 1..Len(mapped) |-> ResponseEntry(responses, mapped[i])]
  IN IF ~isdict(responses) \/ ~Truthy(responses)
     THEN [raised |-> FALSE, codes |-> <<>>, entries |-> <<>>,
           text |-> JoinLines(<<md_h3(<<Lit("Responses")>>),
                                OneLine(<<Lit("No responses defined.")>>),
                                EmptyStr>>)]
     ELSE IF SortRaises(keys) \/ \E i \in 1..Len(entries) : JsonRaises(entries[i].ex)
     THEN [raised |-> TRUE, codes |-> <<>>, entries |-> <<>>, text |-> <<>>]
     ELSE [raised |-> FALSE, codes |-> codes, entries |-> entries,
           text |-> JoinLines(<<md_h3(<<Lit("Responses")>>)>>
                              \o Concat([i \in 1..Len(entries) |-> EntryLines(entries[i])]))]

\* ------------------------------------------------- render_endpoint_sections
\* what one pass of the loop appends to out
SectionParts(t, has_bearer, rf, rr) ==
  LET desc == Or(Get(t[3], VStr(s_description)), Get(t[3], VStr(s_summary)))
  IN <<md_h2(<<Txt(t[1]), Txt(<<SP>>), Txt(t[2])>>)>>
     \o (IF Truthy(desc) THEN <<OneLine(<<Txt(md_escape(PyStr(desc)))>>), EmptyStr>>
         ELSE <<>>)
     \o <<render_required_headers(has_bearer, rf.has_json_body),
          render_request_body_fields(rf.fields, rf.has_json_body),
          rr.text>>

\* ----------------------------------------------------------- build_markdown
TitleOf(spec) ==
  LET info == Get(spec, VStr(s_info))
      title == IF isdict(info) THEN Get(Or(info, VDict(<<>>)), VStr(s_title)) ELSE VNone
  IN IF ~Truthy(title) THEN VStr(s_APIreference) ELSE title

\* FrontParts rendering the summary table whether or not there are operations
FrontParts_no_fallback(spec, ops, base_url, has_bearer) ==
  <<PlusNL(RStripText(md_h1(<<Txt(PyStr(TitleOf(spec))), EmDash, Lit("reference")>>))),
    <<<<Lit("This page is a human-readable reference generated from an OpenAPI spec.")>>,
      <<>>>>>>
  \o (IF Truthy(base_url)
      THEN << <<<<Lit("**Base URL:** "), BQ, Txt(PyStr(base_url)), BQ>>, <<>>>> >>
      ELSE <<>>)
  \o <<render_endpoint_summary(ops)>>
  \o <<render_auth_section(has_bearer)>>

\* the strings build_markdown appends to out before the operation sections
FrontParts(spec, ops, base_url, has_bearer) ==
  <<PlusNL(RStripText(md_h1(<<Txt(PyStr(TitleOf(spec))), EmDash, Lit("reference")>>))),
    <<<<Lit("This page is a human-readable reference generated from an OpenAPI spec.")>>,
      <<>>>>>>
  \o (IF Truthy(base_url)
      THEN << <<<<Lit("**Base URL:** "), BQ, Txt(PyStr(base_url)), BQ>>, <<>>>> >>
      ELSE <<>>)
  \o (IF Len(ops) > 0
      THEN <<render_endpoint_summary(ops)>>
      ELSE << <<NoOperationsLine, <<>>>> >>)
  \o <<render_auth_section(has_bearer)>>


\* ================================================================ documents
\* The documents the model runs on: families of document trees, each varying
\* one part of the tree over the shapes the program tells apart.
MaxPaths == 2
MaxProps == 3
MaxCodes == 3
MaxSchemes == 2

\* text of the documents
d_pa == <<47, 97>>   \* "/a"
d_pb == <<47, 98>>   \* "/b"
d_pnl == <<47, 97, 10, 98>>   \* "/a\nb"
d_GET == <<71, 69, 84>>   \* "GET"
d_POST == <<80, 79, 83, 84>>   \* "POST"
d_Delete == <<68, 101, 108, 101, 116, 101>>   \* "Delete"
d_parameters == <<112, 97, 114, 97, 109, 101, 116, 101, 114, 115>>   \* "parameters"
d_Line1Line2 == <<76, 105, 110, 101, 49, 10, 76, 105, 110, 101, 50>>   \* "Line1\nLine2"
d_desc == <<32, 100, 10, 101, 32>>   \* " d\ne "
d_OK == <<79, 75>>   \* "OK"
d_Notfound == <<78, 111, 116, 10, 102, 111, 117, 110, 100>>   \* "Not\nfound"
d_x == <<120>>   \* "x"
d_y == <<121>>   \* "y"
d_id == <<105, 100>>   \* "id"
d_a == <<97>>   \* "a"
d_b == <<98>>   \* "b"
d_c == <<99>>   \* "c"
d_B == <<66>>   \* "B"
d_abc == <<97, 98, 99>>   \* "abc"
d_fnl == <<102, 10, 103>>   \* "f\ng"
d_string == <<115, 116, 114, 105, 110, 103>>   \* "string"
d_integer == <<105, 110, 116, 101, 103, 101, 114>>   \* "integer"
d_array == <<97, 114, 114, 97, 121>>   \* "array"
d_Object == <<79, 98, 106, 101, 99, 116>>   \* "Object"
d_tnl == <<115, 116, 114, 10, 105, 110, 103>>   \* "str\ning"
d_200 == <<50, 48, 48>>   \* "200"
d_404 == <<52, 48, 52>>   \* "404"
d_10000 == <<49, 48, 48, 48, 48>>   \* "10000"
d_default == <<100, 101, 102, 97, 117, 108, 116>>   \* "default"
d_2XX == <<50, 88, 88>>   \* "2XX"
d_Bearer == <<66, 101, 97, 114, 101, 114>>   \* "Bearer"
d_basic == <<98, 97, 115, 105, 99>>   \* "basic"
d_apiKey == <<97, 112, 105, 75, 101, 121>>   \* "apiKey"
d_HTTP == <<72, 84, 84, 80>>   \* "HTTP"
d_T == <<84>>   \* "T"
d_url == <<104, 116, 116, 112, 58, 47, 47, 120>>   \* "http://x"
d_text_plain == <<116, 101, 120, 116, 47, 112, 108, 97, 105, 110>>   \* "text/plain"
d_oneOf == <<111, 110, 101, 79, 102>>   \* "oneOf"
d_anyOf == <<97, 110, 121, 79, 102>>   \* "anyOf"
d_allOf == <<97, 108, 108, 79, 102>>   \* "allOf"
d_snl == <<115, 10>>   \* "s\n"

\* a key the mapping leaves out
Absent == [t |-> "absent", v |-> 0]
\* a mapping with str keys, from <<key, value>> pairs
Map(pairs) ==
  VDict(SelectSeq([i \in 1..Len(pairs) |-> <<VStr(pairs[i][1]), pairs[i][2]>>],
                  LAMBDA p : p[2].t # "absent"))
\* the sequences of at most k distinct numbers of 1..n
InjSeqs(n, k) ==
  {q \in UNION {[1..m -> 1..n] : m \in 0..k} :
     \A a, b \in 1..Len(q) : a # b => q[a] # q[b]}

JsonContent(app_json) == Map(<< <<s_application_json, app_json>> >>)
JsonBody(schema) == Map(<< <<s_content, JsonContent(Map(<< <<s_schema, schema>> >>))>> >>)
OpA ==
  Map(<< <<s_summary, VStr(d_Line1Line2)>>,
         <<s_responses, Map(<< <<d_200, Map(<< <<s_description, VStr(d_OK)>> >>)>> >>)>> >>)
OpB ==
  Map(<< <<s_description, VStr(d_desc)>>,
         <<s_requestBody,
           JsonBody(Map(<< <<s_type, VStr(s_object)>>,
                           <<s_properties,
                             Map(<< <<d_id, Map(<< <<s_type, VStr(d_integer)>> >>)>> >>)>> >>))>> >>)
DocOf(info, servers, paths, components) ==
  Map(<< <<s_info, info>>, <<s_servers, servers>>, <<s_paths, paths>>,
         <<s_components, components>> >>)
\* a document of one operation
OneOp(method, op) ==
  DocOf(Absent, Absent, Map(<< <<d_pa, Map(<< <<method, op>> >>)>> >>), Absent)

\* ---- paths
PathKeyPool == <<VStr(d_pb), VStr(d_pa), VStr(d_pnl)>>
ItemPool ==
  <<Map(<< <<s_get, OpA>> >>),
    Map(<< <<d_POST, OpB>>, <<s_get, OpA>> >>),
    Map(<< <<d_GET, OpA>>, <<s_get, OpB>> >>),
    Map(<< <<d_parameters, VList(<<>>)>>, <<d_Delete, OpA>> >>),
    VList(<<OpA>>),
    Map(<< <<s_get, VStr(d_x)>>, <<s_put, OpB>> >>)>>
PathsOf(ks, f) == VDict([i \in 1..Len(ks) |-> <<PathKeyPool[ks[i]], ItemPool[f[i]]>>])
PathDocs ==
  UNION {{DocOf(Absent, Absent, PathsOf(ks, f), Absent) :
            f \in [1..Len(ks) -> 1..Len(ItemPool)]} :
         ks \in InjSeqs(Len(PathKeyPool), MaxPaths)}
  \cup {DocOf(Absent, Absent, pv, Absent) :
          pv \in {Absent, VNone, VList(<<OpA>>), VStr(d_x),
                  Map(<< <<d_pa, Map(<< <<d_parameters, OpA>> >>)>> >>)}}

\* ---- request bodies
PostOp(rb) == OneOp(s_post, Map(<< <<s_requestBody, rb>> >>))
SchemaOf(type, props, required) ==
  Map(<< <<s_type, type>>, <<s_properties, props>>, <<s_required, required>> >>)
TypeStr == Map(<< <<s_type, VStr(d_string)>> >>)
\* the shapes around the schema
BodyPool ==
  <<Absent, VNone, VStr(d_x), Map(<<>>),
    Map(<< <<s_content, VList(<<>>)>> >>),
    Map(<< <<s_content, Map(<< <<d_text_plain, Map(<<>>)>> >>)>> >>),
    Map(<< <<s_content, JsonContent(VStr(d_x))>> >>),
    Map(<< <<s_content, JsonContent(Map(<<>>))>> >>),
    JsonBody(VStr(d_x)), JsonBody(VNone), JsonBody(VList(<<TypeStr>>))>>
SchemaTypePool == <<Absent, VStr(s_object), VStr(d_array), VNone, VStr(d_Object)>>
PropsPool == <<Absent, Map(<<>>), Map(<< <<d_a, TypeStr>> >>), VList(<<TypeStr>>)>>
ShapeDocs ==
  {PostOp(BodyPool[k]) : k \in 1..Len(BodyPool)}
  \cup {PostOp(JsonBody(SchemaOf(SchemaTypePool[k], PropsPool[m], Absent))) :
          k \in 1..Len(SchemaTypePool), m \in 1..Len(PropsPool)}

\* the order of the fields: properties and required names
NamePool == <<d_b, d_a, d_c, d_B>>
NamedProp ==
  <<Map(<<>>), TypeStr,
    Map(<< <<s_type, VStr(d_integer)>>, <<s_description, VStr(d_OK)>> >>),
    VStr(d_x)>>
RequiredPool ==
  <<Absent, VList(<<VStr(d_b), VStr(d_a)>>), VList(<<VStr(d_c), VStr(d_B), VStr(d_x)>>),
    VStr(d_abc), VList(<<>>)>>
PropsOf(ns) == VDict([j \in 1..Len(ns) |-> <<VStr(NamePool[ns[j]]), NamedProp[ns[j]]>>])
OrderDocs ==
  {PostOp(JsonBody(SchemaOf(VStr(s_object), PropsOf(ns), RequiredPool[r]))) :
     ns \in InjSeqs(Len(NamePool), MaxProps), r \in 1..Len(RequiredPool)}

\* the type and the notes of one field
PropPool ==
  <<TypeStr,
    Map(<< <<s_type, VStr(d_integer)>>, <<s_description, VStr(d_desc)>>,
           <<s_example, VStr(d_snl)>> >>),
    Map(<<>>),
    Map(<< <<d_oneOf, VList(<<TypeStr>>)>> >>),
    Map(<< <<d_anyOf, VList(<<TypeStr>>)>> >>),
    Map(<< <<d_allOf, VList(<<TypeStr>>)>> >>),
    Map(<< <<s_type, VStr(<<>>)>>, <<d_oneOf, VList(<<TypeStr>>)>> >>),
    Map(<< <<s_type, VNone>>, <<d_anyOf, VList(<<TypeStr>>)>> >>),
    Map(<< <<s_type, VStr(d_string)>>, <<d_oneOf, VList(<<TypeStr>>)>> >>),
    Map(<< <<s_type, VStr(d_tnl)>> >>),
    Map(<< <<s_type, VInt(5)>>, <<s_description, VNone>>, <<s_example, VInt(0)>> >>),
    Map(<< <<s_type, VList(<<VStr(d_string), VNone>>)>>, <<s_example, VBool(FALSE)>> >>),
    VStr(d_x)>>
FieldDocs ==
  {PostOp(JsonBody(SchemaOf(VStr(s_object), Map(<< <<n, PropPool[k]>> >>), rq))) :
     n \in {d_a, d_fnl}, k \in 1..Len(PropPool), rq \in {Absent, VList(<<VStr(d_a)>>)}}

\* ---- responses
GetOp(responses) == OneOp(s_get, Map(<< <<s_responses, responses>> >>))
Described(text) == Map(<< <<s_description, VStr(text)>> >>)
BothExamples ==
  Map(<< <<s_example, VInt(1)>>,
         <<s_examples, Map(<< <<d_x, Map(<< <<s_value, VInt(2)>> >>)>> >>)>> >>)
CodePool == <<VStr(d_404), VStr(d_200), VStr(d_10000), VStr(d_default), VStr(d_2XX), VNone>>
CodeResponse ==
  <<Described(d_Notfound),
    Map(<< <<s_description, VStr(d_OK)>>, <<s_content, JsonContent(BothExamples)>> >>),
    Map(<<>>), Described(d_OK), Described(d_desc), Map(<<>>)>>
ResponsesOf(cs) == VDict([j \in 1..Len(cs) |-> <<CodePool[cs[j]], CodeResponse[cs[j]]>>])
CodeDocs ==
  {GetOp(ResponsesOf(cs)) : cs \in InjSeqs(Len(CodePool), MaxCodes)}
  \cup {GetOp(r) :
          r \in {Absent, VNone, VStr(d_x), VList(<<Described(d_OK)>>),
                 Map(<< <<d_200, VStr(d_OK)>> >>),
                 Map(<< <<d_404, VNone>>, <<d_200, Described(d_OK)>> >>),
                 VDict(<< <<VInt(404), Described(d_OK)>>, <<VStr(d_200), Map(<<>>)>> >>)}}

\* the example of one response
Valued(x) == Map(<< <<s_value, x>> >>)
ExamplePool ==
  <<Absent, VInt(1), VInt(0), VNone, VStr(<<>>), VBool(FALSE), VStr(d_snl), VList(<<>>),
    Map(<<>>), Map(<< <<d_a, VList(<<VInt(1), VStr(d_snl)>>)>> >>), VDate,
    VList(<<VDate>>)>>
ExamplesPool ==
  <<Absent, Map(<<>>), Map(<< <<d_x, Valued(VInt(2))>> >>),
    Map(<< <<d_x, Map(<<>>)>>, <<d_y, Valued(VInt(2))>> >>),
    Map(<< <<d_y, Valued(VStr(d_OK))>>, <<d_x, Valued(VInt(2))>> >>),
    Map(<< <<d_x, VStr(d_x)>> >>), VList(<<Valued(VInt(2))>>),
    Map(<< <<d_x, Valued(VDate)>> >>), Map(<< <<d_x, Valued(VNone)>> >>)>>
ContentOp(content) ==
  GetOp(Map(<< <<d_200, Map(<< <<s_description, VStr(d_OK)>>, <<s_content, content>> >>)>> >>))
ExampleDocs ==
  {ContentOp(JsonContent(Map(<< <<s_example, ExamplePool[k]>>,
                                <<s_examples, ExamplesPool[m]>> >>))) :
     k \in 1..Len(ExamplePool), m \in 1..Len(ExamplesPool)}
  \cup {ContentOp(c) :
          c \in {VNone, VStr(d_x), VList(<<JsonContent(BothExamples)>>),
                 Map(<< <<d_text_plain, BothExamples>> >>), JsonContent(VStr(d_x)),
                 JsonContent(VList(<<BothExamples>>))}}

\* ---- security schemes
SchemeOf(type, scheme) == Map(<< <<s_type, type>>, <<s_scheme, scheme>> >>)
SchemePool ==
  <<SchemeOf(VStr(s_http), VStr(s_bearer)), SchemeOf(VStr(s_http), VStr(d_Bearer)),
    SchemeOf(VStr(s_http), VStr(d_basic)), SchemeOf(VStr(d_apiKey), VStr(s_bearer)),
    SchemeOf(VStr(d_HTTP), VStr(s_bearer)), SchemeOf(VStr(s_http), Absent),
    VStr(s_bearer)>>
SchemesOf(f) == VDict([j \in 1..Len(f) |-> <<VStr(<<115>> \o Digits(j)), SchemePool[f[j]]>>])
TwoOps == Map(<< <<d_pa, Map(<< <<s_post, OpB>>, <<s_get, OpA>> >>)>> >>)
ComponentsPool ==
  {Map(<< <<s_securitySchemes, SchemesOf(f)>> >>) :
     f \in UNION {[1..m -> 1..Len(SchemePool)] : m \in 0..MaxSchemes}}
  \cup {Absent, VNone, VStr(d_x), VList(<<SchemePool[1]>>), Map(<<>>),
        Map(<< <<s_securitySchemes, VNone>> >>),
        Map(<< <<s_securitySchemes, VList(<<SchemePool[1]>>)>> >>),
        Map(<< <<s_securitySchemes, VStr(s_bearer)>> >>)}
AuthDocs == {DocOf(Absent, Absent, pv, c) : pv \in {TwoOps, Absent}, c \in ComponentsPool}

\* ---- title and servers
InfoPool ==
  {Absent, VNone, VStr(d_T), Map(<<>>), Map(<< <<s_title, VStr(d_T)>> >>),
   Map(<< <<s_title, VStr(<<>>)>> >>), Map(<< <<s_title, VInt(5)>> >>)}
ServersPool ==
  {Absent, VNone, VStr(d_url), VList(<<>>), VList(<<VStr(d_url)>>),
   VList(<<Map(<<>>)>>), VList(<<Map(<< <<s_url, VStr(d_url)>> >>)>>),
   Map(<< <<s_url, VStr(d_url)>> >>)}
FrontDocs == {DocOf(n, sv, TwoOps, Absent) : n \in InfoPool, sv \in ServersPool}

Docs == PathDocs \cup ShapeDocs \cup OrderDocs \cup FieldDocs \cup CodeDocs
        \cup ExampleDocs \cup AuthDocs \cup FrontDocs

\* ================================================================== the run
VARIABLES
  spec,            \* the document build_markdown is called on
  pc,              \* where build_markdown is
  ops,             \* collect_operations(spec)
  base_url,        \* first_server_url(spec)
  has_bearer,      \* detect_bearer_auth(spec)
  out,             \* build_markdown's out
  sec,             \* render_endpoint_sections' out
  i,               \* the operations render_endpoint_sections has rendered
  fields,          \* extract_request_fields of operation i
  has_json_body,
  codes,           \* the sorted response codes of operation i
  entries,         \* the responses rendered for operation i
  md               \* the string build_markdown returns

vars == <<spec, pc, ops, base_url, has_bearer, out, sec, i, fields, has_json_body,
          codes, entries, md>>

Init ==
  /\ spec \in Docs
  /\ pc = "start"
  /\ ops = <<>>
  /\ base_url = VNone
  /\ has_bearer = FALSE
  /\ out = <<>>
  /\ sec = <<>>
  /\ i = 0
  /\ fields = <<>>
  /\ has_json_body = FALSE
  /\ codes = <<>>
  /\ entries = <<>>
  /\ md = <<>>

\* ops = collect_operations(spec)
CollectOperations ==
  /\ pc = "start"
  /\ ops' = collect_operations(spec)
  /\ pc' = "detect"
  /\ UNCHANGED <<spec, base_url, has_bearer, out, sec, i, fields, has_json_body,
                 codes, entries, md>>

\* base_url = first_server_url(spec); has_bearer = detect_bearer_auth(spec)
Detect ==
  /\ pc = "detect"
  /\ base_url' = first_server_url(spec)
  /\ has_bearer' = detect_bearer_auth(spec)
  /\ pc' = "front"
  /\ UNCHANGED <<spec, ops, out, sec, i, fields, has_json_body, codes, entries, md>>

\* the title, the base URL, the summary table or its fallback, the
\* authentication section
RenderFront ==
  /\ pc = "front"
  /\ out' = FrontParts(spec, ops, base_url, has_bearer)
  /\ pc' = IF Len(ops) > 0 THEN "sections" ELSE "finish"
  /\ UNCHANGED <<spec, ops, base_url, has_bearer, sec, i, fields, has_json_body,
                 codes, entries, md>>

\* one pass of render_endpoint_sections' loop
RenderSection ==
  /\ pc = "sections"
  /\ i < Len(ops)
  /\ LET t == ops[i + 1]
         rf == extract_request_fields(t[3])
         rr == render_responses(t[3])
     IN /\ ~rr.raised
        /\ fields' = rf.fields
        /\ has_json_body' = rf.has_json_body
        /\ codes' = rr.codes
        /\ entries' = rr.entries
        /\ sec' = sec \o SectionParts(t, has_bearer, rf, rr)
  /\ i' = i + 1
  /\ UNCHANGED <<spec, pc, ops, base_url, has_bearer, out, md>>

\* render_responses raises: the exception leaves build_markdown
RaiseInSection ==
  /\ pc = "sections"
  /\ i < Len(ops)
  /\ render_responses(ops[i + 1][3]).raised
  /\ pc' = "raised"
  /\ UNCHANGED <<spec, ops, base_url, has_bearer, out, sec, i, fields,
                 has_json_body, codes, entries, md>>

\* render_endpoint_sections returns
EndSections ==
  /\ pc = "sections"
  /\ i = Len(ops)
  /\ out' = Append(out, PlusNL(RStripText(JoinLines(sec))))
  /\ pc' = "finish"
  /\ UNCHANGED <<spec, ops, base_url, has_bearer, sec, i, fields, has_json_body,
                 codes, entries, md>>

\* build_markdown returns
Finish ==
  /\ pc = "finish"
  /\ md' = PlusNL(LStripText(RStripText(JoinLines(out))))
  /\ pc' = "done"
  /\ UNCHANGED <<spec, ops, base_url, has_bearer, out, sec, i, fields,
                 has_json_body, codes, entries>>

Next ==
  \/ CollectOperations
  \/ Detect
  \/ RenderFront
  \/ RenderSection
  \/ RaiseInSection
  \/ EndSections
  \/ Finish

Spec == Init /\ [][Next]_vars


\* =================================================================== claims
\* what the claims read off a document and off the rendered text
PathsValue == Get(spec, VStr(s_paths))
SameIgnoringCase(a, b) ==
  Len(a) = Len(b) /\ \A k \in 1..Len(a) : LowerChar(a[k]) = LowerChar(b[k])
IsMethodKey(key) == \E m \in HTTP_METHODS : SameIgnoringCase(PyStr(key), m)
\* <<a, b>>: the b-th key of the a-th path item is an operation
Recognized ==
  IF ~isdict(PathsValue) THEN {}
  ELSE UNION {{<<a, b>> : b \in {c \in 1..Len(PathsValue.v[a][2].v) :
                                  /\ IsMethodKey(PathsValue.v[a][2].v[c][1])
                                  /\ isdict(PathsValue.v[a][2].v[c][2])}} :
              a \in {c \in 1..Len(PathsValue.v) : isdict(PathsValue.v[c][2])}}
TripleOf(x) ==
  <<upper(PyStr(PathsValue.v[x[1]][2].v[x[2]][1])), PyStr(PathsValue.v[x[1]][1]),
    PathsValue.v[x[1]][2].v[x[2]][2]>>
\* (path, method) of a is not after that of b
NotAfter(a, b) == ~StrLess(b[2], a[2]) /\ (a[2] = b[2] => ~StrLess(b[1], a[1]))
HasLine(text, line) == \E k \in 1..Len(text) : text[k] = line
Heading2(line) == Len(line) > 0 /\ line[1] = Lit("## ")
\* the operation the last pass of the sections loop rendered
CurOp == ops[i][3]
InSection == pc = "sections" /\ i > 0
\* the last string of sec whose heading is title
Block(title) ==
  sec[CHOOSE k \in 1..Len(sec) :
        /\ Len(sec[k]) > 1 /\ sec[k][2] = <<Lit("### "), Lit(title)>>
        /\ \A m \in (k + 1)..Len(sec) :
             ~(Len(sec[m]) > 1 /\ sec[m][2] = <<Lit("### "), Lit(title)>>)]

\* C1: collect_operations returns exactly one (METHOD, path, operation) triple
\* for each path key whose value is a mapping and each key of that path item
\* that matches one of the seven methods case-insensitively and whose value is a
\* mapping, skips everything else, and returns the triples sorted ascending by
\* (path, uppercase method), compared lexically.
C1_CollectExactSorted ==
  pc # "start" =>
    /\ Len(ops) = Cardinality(Recognized)
    /\ \A k \in 1..Len(ops) : \E x \in Recognized : ops[k] = TripleOf(x)
    /\ \A x \in Recognized :
         Cardinality({k \in 1..Len(ops) : ops[k] = TripleOf(x)})
           = Cardinality({y \in Recognized : TripleOf(y) = TripleOf(x)})
    /\ \A k \in 1..(Len(ops) - 1) : NotAfter(ops[k], ops[k + 1])
\* three operations collected, a key of a path item skipped, the paths of the
\* document not in sorted order, two methods on one path
C1_Witness ==
  /\ pc = "detect"
  /\ Len(ops) = 3
  /\ \E a \in 1..Len(PathsValue.v) : \E c \in 1..Len(PathsValue.v[a][2].v) :
       <<a, c>> \notin Recognized
  /\ ops[1][2] # PyStr(PathsValue.v[1][1])
  /\ \E k \in 1..2 : ops[k][2] = ops[k + 1][2] /\ ops[k][1] # ops[k + 1][1]

\* C9: a document with no recognized operation (paths missing, empty, not a
\* mapping, or without any) gets the fallback line in place of the summary
\* table, the authentication section, and no per-operation section.
C9_NoOperationsFallback ==
  (pc = "done" /\ Recognized = {}) =>
    /\ HasLine(md, NoOperationsLine)
    /\ ~HasLine(md, <<Lit("| Method | Path | Purpose |")>>)
    /\ HasLine(md, <<Lit("## "), Lit("Authentication")>>)
    /\ \A k \in 1..Len(md) :
         Heading2(md[k]) => md[k] = <<Lit("## "), Lit("Authentication")>>
C9_Witness ==
  /\ pc = "done"
  /\ Recognized = {}
  /\ isdict(PathsValue) /\ Len(PathsValue.v) > 0
  /\ HasLine(md, NoOperationsLine)


\* the request body of the rendered operation, as the claims name its parts
ReqBody == Get(CurOp, VStr(s_requestBody))
ReqContent == IF isdict(ReqBody) THEN Get(ReqBody, VStr(s_content)) ELSE VNone
ReqJson == IF isdict(ReqContent) THEN Get(ReqContent, VStr(s_application_json)) ELSE VNone
ReqSchema == IF isdict(ReqJson) THEN Get(ReqJson, VStr(s_schema)) ELSE VNone
SchemaProps ==
  IF isdict(ReqSchema) /\ isdict(Get(ReqSchema, VStr(s_properties)))
  THEN Get(ReqSchema, VStr(s_properties)).v ELSE <<>>
SchemaRequired ==
  IF isdict(ReqSchema) /\ islist(Get(ReqSchema, VStr(s_required)))
  THEN Get(ReqSchema, VStr(s_required)).v ELSE <<>>
NoBodyLine == <<Lit("This endpoint does not define a request body.")>>
NotExpandedLine ==
  <<Lit("Request body schema is JSON, but fields are not expanded in this MVP.")>>
FieldsHeaderLine == <<Lit("| Field | Type | Required | Notes |")>>
\* state 1: no JSON body
NoJsonBody == ~isdict(ReqJson)
\* state 3 as the code has it, and as the claim has it
TypeIsObject == isdict(ReqSchema) /\ PyEq(Get(ReqSchema, VStr(s_type)), VStr(s_object))
TypeOmittedWithProperties ==
  /\ isdict(ReqSchema)
  /\ ~HasKey(ReqSchema, VStr(s_type))
  /\ HasKey(ReqSchema, VStr(s_properties))
\* the fields are the properties, one descriptor each
Flattened ==
  /\ Len(fields) = Len(SchemaProps)
  /\ \A k \in 1..Len(SchemaProps) :
       \E m \in 1..Len(fields) : fields[m].name = PyStr(SchemaProps[k][1])
RendersState1 ==
  fields = <<>> /\ ~has_json_body /\ HasLine(Block("Request body fields"), NoBodyLine)
RendersState2 ==
  /\ fields = <<>> /\ has_json_body
  /\ HasLine(Block("Request body fields"), NotExpandedLine)
  /\ ~HasLine(Block("Request body fields"), NoBodyLine)
RendersState3 ==
  /\ has_json_body /\ Flattened
  /\ HasLine(Block("Request body fields"),
             IF fields = <<>> THEN NotExpandedLine ELSE FieldsHeaderLine)

\* C2 as amended: extract_request_fields yields exactly one of three states:
\* (1) requestBody, its content or the application/json entry absent or not a
\* mapping: no fields, flag false, the "does not define a request body" line;
\* (2) JSON content present but the schema absent or not a mapping, or
\* schema.type anything but "object", omitted included: no fields, flag true,
\* the "not expanded" line; (3) schema.type == "object": the properties
\* flattened into field descriptors, flag true.
C2_ThreeStatesAmended ==
  InSection =>
    /\ NoJsonBody => RendersState1
    /\ (~NoJsonBody /\ ~TypeIsObject) => RendersState2
    /\ TypeIsObject => RendersState3
\* the schema omits type and has a property: not expanded
C2_Witness ==
  /\ InSection
  /\ TypeOmittedWithProperties /\ Len(SchemaProps) > 0
  /\ fields = <<>> /\ has_json_body
  /\ HasLine(Block("Request body fields"), NotExpandedLine)
\* C2 as claimed: state (3) also when type is omitted but properties is
\* present, state (2) only when schema.type is present and not "object".
C2_ThreeStatesClaimed ==
  InSection =>
    /\ NoJsonBody => RendersState1
    /\ (~NoJsonBody /\ ~TypeIsObject /\ ~TypeOmittedWithProperties) => RendersState2
    /\ (TypeIsObject \/ TypeOmittedWithProperties) => has_json_body /\ Flattened

\* the property a field descriptor was derived from
PropertyOf(f) ==
  SchemaProps[CHOOSE k \in 1..Len(SchemaProps) : PyStr(SchemaProps[k][1]) = f.name][2]
HasOwn(p, key) == isdict(p) /\ HasKey(p, VStr(key))

C6_FieldOrder ==
  InSection =>
    /\ \A m \in 1..Len(fields) :
         (fields[m].required = "yes")
           <=> \E k \in 1..Len(SchemaRequired) : SchemaRequired[k] = VStr(fields[m].name)
    /\ \A k, m \in 1..Len(fields) :
         k < m =>
           /\ fields[m].required = "yes" => fields[k].required = "yes"
           /\ fields[k].required = fields[m].required
                => ~StrLess(fields[m].name, fields[k].name)
\* required b, a and optional c, the properties in the order c, b, a
C6_Witness ==
  /\ InSection
  /\ Len(fields) = 3
  /\ [k \in 1..3 |-> SchemaProps[k][1].v] = <<d_c, d_b, d_a>>
  /\ [k \in 1..3 |-> fields[k].name] = <<d_a, d_b, d_c>>
  /\ [k \in 1..3 |-> fields[k].required] = <<"yes", "yes", "no">>


\* some entry of components.securitySchemes is a mapping with type == "http"
\* and a scheme that is "bearer" in some letter case
SchemesValue ==
  IF isdict(Get(spec, VStr(s_components)))
  THEN Get(Get(spec, VStr(s_components)), VStr(s_securitySchemes))
  ELSE VNone
DeclaresBearer(e) ==
  /\ isdict(e)
  /\ Get(e, VStr(s_type)) = VStr(s_http)
  /\ Get(e, VStr(s_scheme)).t = "str"
  /\ SameIgnoringCase(Get(e, VStr(s_scheme)).v, s_bearer)
BearerDeclared ==
  isdict(SchemesValue) /\ \E k \in 1..Len(SchemesValue.v) : DeclaresBearer(SchemesValue.v[k][2])
HeaderBlocks ==
  {k \in 1..Len(sec) :
     Len(sec[k]) > 1 /\ sec[k][2] = <<Lit("### "), Lit("Required headers")>>}
BearerLine == <<Lit("- ")>> \o BearerHeader

\* C8: detect_bearer_auth is true iff some entry of components.securitySchemes
\* is a mapping with type == "http" and scheme equal to "bearer"
\* case-insensitively; the Authorization: Bearer <token> line is in the Required
\* headers block of every operation section when it is true and of none when it
\* is false, whatever the operation holds.
C8_BearerDocumentWide ==
  /\ pc \notin {"start", "detect"} => (has_bearer <=> BearerDeclared)
  /\ pc = "sections" =>
       /\ Cardinality(HeaderBlocks) = i
       /\ \A k \in HeaderBlocks : HasLine(sec[k], BearerLine) <=> BearerDeclared
\* two sections rendered with the line, the scheme declared only as "Bearer"
C8_Witness ==
  /\ pc = "sections" /\ i = 2
  /\ has_bearer
  /\ \A k \in 1..Len(SchemesValue.v) :
       isdict(SchemesValue.v[k][2]) => Get(SchemesValue.v[k][2], VStr(s_scheme)) # VStr(s_bearer)
  /\ \A k \in HeaderBlocks : HasLine(sec[k], BearerLine)
  /\ \E k \in HeaderBlocks : ~HasLine(sec[k], <<Lit("- ")>> \o ContentTypeHeader)

\* the responses of the rendered operation
ResponsesValue == Get(CurOp, VStr(s_responses))
Listed == InSection /\ isdict(ResponsesValue) /\ Len(codes) > 0
\* where a code occurs in the responses mapping
Encounter(code) == CHOOSE k \in 1..Len(ResponsesValue.v) : ResponsesValue.v[k][1] = code
Numeric(code) == IntOk(code)

\* the codes render_responses lists, in the order of the output
ListedCodes == [k \in 1..Len(entries) |-> entries[k].code]
MappedKeys ==
  {k \in 1..Len(ResponsesValue.v) : isdict(ResponsesValue.v[k][2])}

JsonEntryOf(code) ==
  LET r == Get(ResponsesValue, code)
  IN IF isdict(Get(r, VStr(s_content)))
     THEN Get(Get(r, VStr(s_content)), VStr(s_application_json))
     ELSE VNone
\* the value field of the first entry of examples, when it has one
FirstExample(aj) == Get(aj, VStr(s_examples)).v[1][2]
FirstExampleHasValue(aj) ==
  /\ isdict(Get(aj, VStr(s_examples)))
  /\ Len(Get(aj, VStr(s_examples)).v) > 0
  /\ isdict(FirstExample(aj))
  /\ HasKey(FirstExample(aj), VStr(s_value))
JsonFence == <<Txt(<<96, 96, 96>>), Lit("json")>>

\* C4: for a content mapping whose application/json entry is a mapping, the
\* example is the value of the key example when the entry has that key,
\* whatever the value, and examples is not consulted; else the value field of
\* the first entry of examples when that entry has one; else there is no
\* example.  With example: 1 and examples: {x: {value: 2}} the rendered example
\* is 1, never 2.
C4_ExamplePrecedence ==
  InSection =>
    \A k \in 1..Len(entries) :
      LET aj == JsonEntryOf(entries[k].code)
      IN isdict(aj) =>
           /\ HasKey(aj, VStr(s_example)) => entries[k].ex = Get(aj, VStr(s_example))
           /\ (~HasKey(aj, VStr(s_example)) /\ FirstExampleHasValue(aj))
                => entries[k].ex = Get(FirstExample(aj), VStr(s_value))
           /\ (~HasKey(aj, VStr(s_example)) /\ ~FirstExampleHasValue(aj))
                => entries[k].ex = VNone
           /\ (Len(entries) = 1 /\ aj = BothExamples) =>
                /\ HasLine(Block("Responses"), JsonFence)
                /\ HasLine(Block("Responses"), <<Txt(<<49>>)>>)
                /\ ~HasLine(Block("Responses"), <<Txt(<<50>>)>>)
\* a falsy example beside an examples entry with a value: the example is 0
C4_Witness ==
  /\ InSection
  /\ Len(entries) = 1
  /\ isdict(JsonEntryOf(entries[1].code))
  /\ Get(JsonEntryOf(entries[1].code), VStr(s_example)) = VInt(0)
  /\ FirstExampleHasValue(JsonEntryOf(entries[1].code))
  /\ entries[1].ex = VInt(0)
  /\ HasLine(Block("Responses"), <<Txt(<<48>>)>>)

\* C5: on a document whose root is a mapping build_markdown returns a complete
\* Markdown string and never raises, whatever is missing or of the wrong type
\* below the root, response-code keys and example values of any type included.
C5_NeverRaises == pc # "raised"

\* a row of a table, and a newline within it
IsRow(line) == Len(line) > 0 /\ line[1] = Lit("| ")
HoldsNewline(line) ==
  \E k \in 1..Len(line) : \E m \in 1..Len(line[k].txt) : line[k].txt[m] = NL

\* C7: every row of the endpoint summary table and of the request-body fields
\* table is one line of the output: no summary, description, path, field
\* name, field type or notes puts a newline inside a row.
C7_RowsAreOneLine == \A k \in 1..Len(md) : IsRow(md[k]) => ~HoldsNewline(md[k])

====
